---------------------------- MODULE Spec2Model ----------------------------
(***************************************************************************)
(* A model of pagerank.py: transition_model, sample_pagerank and           *)
(* iterate_pagerank.                                                       *)
(*                                                                         *)
(* Pages are the integers 1..N in the insertion order of the corpus dict,  *)
(* so a corpus is a sequence of link sets and iterating the dict is        *)
(* iterating 1..N upwards.                                                 *)
(*                                                                         *)
(* Numbers.  Python floats are not representable in TLA+.  The             *)
(* probabilities of transition_model and the sampler are modelled as exact *)
(* rationals [num, den] in lowest terms; the ranks of iterate_pagerank are *)
(* modelled as fixed-point integers counting 1/Unit, every division        *)
(* truncating.  Rounding in the last bits of a float is therefore not      *)
(* modelled; every comparison the code makes (rgn < prob_count,            *)
(* abs(old - new) <= 0.001) is made on the modelled values.                *)
(***************************************************************************)
EXTENDS Integers, Sequences, FiniteSets

VARIABLES
    op,                        \* which function is being called
    pc,                        \* position inside the called function
    outcome,                   \* "running", "returned", or the exception raised
    result,                    \* the returned dict (<< >> until it returns)
    corpus,                    \* argument: page -> set of linked pages
    damping_factor,            \* argument: rational in [0,1]
    page,                      \* argument of transition_model
    n,                         \* argument of sample_pagerank
    i,                         \* sample_pagerank: loop index
    current_page,              \* local of sample_pagerank and of iterate_pagerank
    pages_count,               \* sample_pagerank: page -> visits
    pages_probabilities,       \* sample_pagerank: page -> cached distribution
    page_ranks,                \* iterate_pagerank: page -> rank (fixed point)
    pages_that_mention_pages,  \* iterate_pagerank: reverse index (a partial map)
    current_count,             \* iterate_pagerank: number of updates made
    convergence_count,         \* iterate_pagerank: consecutive small updates
    reference_page,            \* iterate_pagerank: the for-loop variable of line 148
    references_sum,            \* iterate_pagerank: local of line 146
    set_order,                 \* page -> the member its inbound set enumerates last
    trail                      \* history: the pages visited (sampler), the last
                               \* page_count updates made (iteration)

vars == << op, pc, outcome, result, corpus, damping_factor, page, n, i,
           current_page, pages_count, pages_probabilities, page_ranks,
           pages_that_mention_pages, current_count, convergence_count,
           reference_page, references_sum, set_order, trail >>

-----------------------------------------------------------------------------
(* Bounds of the model *)

MaxPages == 3
MaxSamples == 3
MaxUpdates == 40
MaxRank == 8
RandomGrid == 4

(* Program constants *)

DAMPING_PERCENT == 85
THRESHOLD_PER_MILLE == 1

-----------------------------------------------------------------------------
(* Exact rationals *)

RECURSIVE GCD(_, _)
GCD(a, b) == IF b = 0 THEN a ELSE GCD(b, a % b)

Abs(x) == IF x < 0 THEN -x ELSE x

Rat(a, b) ==
    LET g == GCD(Abs(a), Abs(b))
        s == IF b < 0 THEN -1 ELSE 1
    IN  [num |-> (s * a) \div g, den |-> (s * b) \div g]

RZero == Rat(0, 1)
ROne == Rat(1, 1)
RAdd(x, y) == Rat(x.num * y.den + y.num * x.den, x.den * y.den)
RSub(x, y) == Rat(x.num * y.den - y.num * x.den, x.den * y.den)
RMul(x, y) == Rat(x.num * y.num, x.den * y.den)
RLess(x, y) == x.num * y.den < y.num * x.den

RECURSIVE RSum(_, _)
RSum(f, S) ==
    IF S = {} THEN RZero
    ELSE LET x == CHOOSE y \in S : TRUE IN RAdd(f[x], RSum(f, S \ {x}))

-----------------------------------------------------------------------------
(* Inputs *)

DAMPING == Rat(DAMPING_PERCENT, 100)

Dampings == {RZero, Rat(1, 2), DAMPING, ROne}

\* The sampler is followed for the damping factor main() passes and for 1,
\* under which a walk never teleports.
SampleDampings == {DAMPING, ROne}

Pages(c) == DOMAIN c

\* What crawl() produces: links only to other pages of the corpus.
CorporaOf(N) ==
    {c \in [1..N -> SUBSET (1..N)] : \A p \in 1..N : p \notin c[p]}

Corpora == UNION {CorporaOf(N) : N \in 0..MaxPages}

Empty == << >>
UNBOUND == 0

-----------------------------------------------------------------------------
(* transition_model *)

\* transition_model without the branch of lines 67-69: a page without links
\* is given the teleport formula.
transition_model_merged(c, p, d) ==
    LET linked_pages == c[p]
        random_page_probability == RMul(Rat(1, Len(c)), RSub(ROne, d))
        linked_page_probability ==
            IF linked_pages # {}
            THEN RMul(Rat(1, Cardinality(linked_pages)), d)
            ELSE RZero
    IN  [key \in Pages(c) |->
            IF key \in linked_pages
            THEN RAdd(random_page_probability, linked_page_probability)
            ELSE random_page_probability]

\* transition_model with line 75 assigning instead of adding: a linked page
\* loses its teleport share.
transition_model_assign(c, p, d) ==
    LET linked_pages == c[p]
        random_page_probability ==
            IF linked_pages # {}
            THEN RMul(Rat(1, Len(c)), RSub(ROne, d))
            ELSE Rat(1, Len(c))
        linked_page_probability ==
            IF linked_pages # {}
            THEN RMul(Rat(1, Cardinality(linked_pages)), d)
            ELSE RZero
    IN  [key \in Pages(c) |->
            IF key \in linked_pages
            THEN linked_page_probability
            ELSE random_page_probability]

\* The dict built by lines 60-76, for a page that is a key of the corpus.
transition_model(c, p, d) ==
    LET linked_pages == c[p]
        corpus_length == Len(c)
        linked_pages_length == Cardinality(linked_pages)
        random_page_probability ==
            IF linked_pages_length # 0
            THEN RMul(Rat(1, corpus_length), RSub(ROne, d))
            ELSE Rat(1, corpus_length)
        linked_page_probability ==
            IF linked_pages_length # 0
            THEN RMul(Rat(1, linked_pages_length), d)
            ELSE RZero
    IN  [key \in Pages(c) |->
            IF key \in linked_pages
            THEN RAdd(random_page_probability, linked_page_probability)
            ELSE random_page_probability]

TransitionCall ==
    /\ op = "transition_model"
    /\ pc = "start"
    /\ pc' = "done"
    /\ IF page \in Pages(corpus)
       THEN /\ outcome' = "returned"
            /\ result' = transition_model(corpus, page, damping_factor)
       ELSE /\ outcome' = "KeyError"                         \* line 60
            /\ result' = Empty
    /\ UNCHANGED << op, corpus, damping_factor, page, n, i, current_page,
                    pages_count, pages_probabilities, page_ranks,
                    pages_that_mention_pages, current_count, convergence_count,
                    reference_page, references_sum, set_order, trail >>

-----------------------------------------------------------------------------
(* sample_pagerank *)

\* The values random.random() can return, on a grid of [0,1).
RandomValues == {Rat(k, RandomGrid) : k \in 0..(RandomGrid - 1)}

\* dict[key] = value, for a dict held as a function on its keys.
Put(f, k, v) == [x \in (DOMAIN f) \cup {k} |-> IF x = k THEN v ELSE f[x]]

\* Lines 95-98 with a visit that is never added to an earlier one.
CountVisit_overwrite(counts, p) == Put(counts, p, 1)

\* Lines 95-98: one more visit of page p.
CountVisit(counts, p) ==
    IF p \in DOMAIN counts
    THEN [counts EXCEPT ![p] = @ + 1]
    ELSE Put(counts, p, 1)

\* Lines 106-110: walk the distribution in dict order from `key` on; the first
\* key at which the running sum exceeds rgn becomes the current page, and the
\* current page stays when the loop ends without a break.
RECURSIVE NextPage(_, _, _, _, _)
NextPage(dist, rgn, key, prob_count, cur) ==
    IF key \notin DOMAIN dist THEN cur
    ELSE LET sum == RAdd(prob_count, dist[key])
         IN  IF RLess(rgn, sum) THEN key
             ELSE NextPage(dist, rgn, key + 1, sum, cur)

\* Line 88: random.choice(list(corpus.keys())).
SampleStart ==
    /\ op = "sample_pagerank"
    /\ pc = "start"
    /\ IF Pages(corpus) = {}
       THEN /\ outcome' = "IndexError"
            /\ pc' = "done"
            /\ current_page' = current_page
       ELSE /\ outcome' = outcome
            /\ pc' = "loop"
            /\ current_page' \in Pages(corpus)
    /\ UNCHANGED << op, result, corpus, damping_factor, page, n, i,
                    pages_count, pages_probabilities, page_ranks,
                    pages_that_mention_pages, current_count, convergence_count,
                    reference_page, references_sum, set_order, trail >>

\* One pass of the loop of lines 91-110.
SampleStep ==
    /\ op = "sample_pagerank"
    /\ pc = "loop"
    /\ i < n
    /\ \E rgn \in RandomValues :
         LET current_page_probabilities ==
                 IF current_page \in DOMAIN pages_probabilities
                 THEN pages_probabilities[current_page]
                 ELSE transition_model(corpus, current_page, damping_factor)
         IN  /\ pages_count' = CountVisit(pages_count, current_page)
             /\ pages_probabilities' =
                    Put(pages_probabilities, current_page,
                        current_page_probabilities)
             /\ current_page' =
                    NextPage(current_page_probabilities, rgn, 1, RZero,
                             current_page)
    /\ i' = i + 1
    /\ trail' = Append(trail, current_page)
    /\ UNCHANGED << op, pc, outcome, result, corpus, damping_factor, page, n,
                    page_ranks, pages_that_mention_pages, current_count,
                    convergence_count, reference_page, references_sum,
                    set_order >>

\* Lines 112-116, once range(n) is exhausted.
SampleReturn ==
    /\ op = "sample_pagerank"
    /\ pc = "loop"
    /\ i >= n
    /\ pc' = "done"
    /\ outcome' = "returned"
    /\ result' = [key \in DOMAIN pages_count |-> Rat(pages_count[key], n)]
    /\ UNCHANGED << op, corpus, damping_factor, page, n, i, current_page,
                    pages_count, pages_probabilities, page_ranks,
                    pages_that_mention_pages, current_count, convergence_count,
                    reference_page, references_sum, set_order, trail >>

-----------------------------------------------------------------------------
(* iterate_pagerank *)

\* One, as a fixed-point rank.
Unit == 10^6

\* The 0.001 of line 154.
Threshold == (THRESHOLD_PER_MILLE * Unit) \div 1000

\* damping_factor * x
Damped(d, x) == (d.num * x) \div d.den

\* (1 - damping_factor) / page_count
Teleport(d, page_count) == ((d.den - d.num) * Unit) \div (d.den * page_count)

\* Lines 131-138: only pages that some page links to become keys.
ReverseIndex(c) ==
    [q \in {q \in Pages(c) : \E p \in Pages(c) : q \in c[p]} |->
        {p \in Pages(c) : q \in c[p]}]

\* The orders in which the inbound sets can be enumerated, as far as the code
\* can tell them apart: which member of each set comes last.  A set enumerates
\* the same way every time within one run.
SetOrders(c) ==
    {o \in [DOMAIN ReverseIndex(c) -> Pages(c)] :
        \A q \in DOMAIN o : o[q] \in ReverseIndex(c)[q]}

\* len(corpus[reference_page]) or page_count
LinkCount(c, p) ==
    IF Cardinality(c[p]) # 0 THEN Cardinality(c[p]) ELSE Len(c)

\* Lines 148-149: the sum over the pages that mention the current page.
RECURSIVE MentionSum(_, _, _, _)
MentionSum(c, d, ranks, S) ==
    IF S = {} THEN 0
    ELSE LET reference == CHOOSE p \in S : TRUE
         IN  Damped(d, ranks[reference] \div LinkCount(c, reference))
             + MentionSum(c, d, ranks, S \ {reference})

\* The locals of iterate_pagerank that the loop reads and writes.
IterState ==
    [ page_ranks |-> page_ranks,
      current_count |-> current_count,
      convergence_count |-> convergence_count,
      current_page |-> current_page,
      reference_page |-> reference_page,
      references_sum |-> references_sum,
      outcome |-> outcome ]

\* Lines 128-142 for a corpus with at least one page.
SetupState(c) ==
    [ page_ranks |-> [p \in Pages(c) |-> Unit \div Len(c)],
      current_count |-> 0,
      convergence_count |-> 0,
      current_page |-> UNBOUND,
      reference_page |-> UNBOUND,
      references_sum |-> 0,
      outcome |-> "running" ]

\* Whether line 154 counts the update as converged.
Converged(old_rank, new_rank) == Abs(old_rank - new_rank) <= Threshold

\* Lines 154-157 without the else branch: the counter is never reset.
NextConvergenceCount_no_reset(count, old_rank, new_rank) ==
    IF Converged(old_rank, new_rank) THEN count + 1 ELSE count

\* Lines 154-157.
NextConvergenceCount(count, old_rank, new_rank) ==
    IF Converged(old_rank, new_rank) THEN count + 1 ELSE 0

\* One pass of the loop body, lines 145-159, from locals s.
Update(c, d, mentions, order, s) ==
    LET page_count == Len(c)
        cur == (s.current_count % page_count) + 1
        mentioned == cur \in DOMAIN mentions
        ref == IF mentioned THEN order[cur] ELSE s.reference_page
    IN  IF ~mentioned /\ s.reference_page = UNBOUND
        THEN [s EXCEPT !.current_page = cur,
                       !.references_sum = 0,
                       !.outcome = "UnboundLocalError"]      \* line 151
        ELSE LET sum == IF mentioned
                        THEN MentionSum(c, d, s.page_ranks, mentions[cur])
                        ELSE Damped(d, s.page_ranks[ref] \div page_count)
                 new_rank == Teleport(d, page_count) + sum
             IN  [ page_ranks |-> [s.page_ranks EXCEPT ![cur] = new_rank],
                   current_count |-> s.current_count + 1,
                   convergence_count |->
                       NextConvergenceCount(s.convergence_count,
                                            s.page_ranks[cur], new_rank),
                   current_page |-> cur,
                   reference_page |-> ref,
                   references_sum |-> sum,
                   outcome |-> s.outcome ]

\* The model follows a run for MaxUpdates updates and while the ranks stay
\* below MaxRank.
WithinBounds(s) ==
    /\ s.current_count < MaxUpdates
    /\ \A p \in DOMAIN s.page_ranks : s.page_ranks[p] <= MaxRank * Unit

\* The loop of lines 143-161 run from locals s to its end, or as far as the
\* model follows it.
RECURSIVE Run(_, _, _, _, _)
Run(c, d, mentions, order, s) ==
    IF s.outcome # "running" THEN s
    ELSE IF s.convergence_count >= Len(c) THEN [s EXCEPT !.outcome = "returned"]
    ELSE IF ~WithinBounds(s) THEN s
    ELSE Run(c, d, mentions, order, Update(c, d, mentions, order, s))

LastN(seq, k) ==
    IF Len(seq) <= k THEN seq ELSE SubSeq(seq, Len(seq) - k + 1, Len(seq))

IterateSetup ==
    /\ op = "iterate_pagerank"
    /\ pc = "start"
    /\ IF Len(corpus) = 0
       THEN /\ outcome' = "ZeroDivisionError"                \* line 130
            /\ pc' = "done"
            /\ UNCHANGED << page_ranks, pages_that_mention_pages >>
       ELSE /\ outcome' = outcome
            /\ pc' = "loop"
            /\ page_ranks' = SetupState(corpus).page_ranks
            /\ pages_that_mention_pages' = ReverseIndex(corpus)
    /\ UNCHANGED << op, result, corpus, damping_factor, page, n, i,
                    current_page, pages_count, pages_probabilities,
                    current_count, convergence_count, reference_page,
                    references_sum, set_order, trail >>

IterateUpdate ==
    /\ op = "iterate_pagerank"
    /\ pc = "loop"
    /\ convergence_count < Len(corpus)                       \* line 144
    /\ WithinBounds(IterState)
    /\ LET s == Update(corpus, damping_factor, pages_that_mention_pages,
                       set_order, IterState)
       IN  /\ page_ranks' = s.page_ranks
           /\ current_count' = s.current_count
           /\ convergence_count' = s.convergence_count
           /\ current_page' = s.current_page
           /\ reference_page' = s.reference_page
           /\ references_sum' = s.references_sum
           /\ outcome' = s.outcome
           /\ pc' = IF s.outcome = "running" THEN "loop" ELSE "done"
           /\ trail' =
                IF s.outcome = "running"
                THEN LastN(Append(trail,
                         [ page |-> s.current_page,
                           converged |-> Converged(page_ranks[s.current_page],
                                                   s.page_ranks[s.current_page]) ]),
                         Len(corpus))
                ELSE trail
    /\ UNCHANGED << op, result, corpus, damping_factor, page, n, i,
                    pages_count, pages_probabilities,
                    pages_that_mention_pages, set_order >>

\* Lines 144 and 161.
IterateReturn ==
    /\ op = "iterate_pagerank"
    /\ pc = "loop"
    /\ convergence_count >= Len(corpus)
    /\ pc' = "done"
    /\ outcome' = "returned"
    /\ result' = page_ranks
    /\ UNCHANGED << op, corpus, damping_factor, page, n, i, current_page,
                    pages_count, pages_probabilities, page_ranks,
                    pages_that_mention_pages, current_count, convergence_count,
                    reference_page, references_sum, set_order, trail >>

-----------------------------------------------------------------------------
(* Specifications *)

\* The state before a call: no local is bound yet.
Idle ==
    /\ pc = "start"
    /\ outcome = "running"
    /\ result = Empty
    /\ i = 0
    /\ current_page = UNBOUND
    /\ pages_count = Empty
    /\ pages_probabilities = Empty
    /\ page_ranks = Empty
    /\ pages_that_mention_pages = Empty
    /\ current_count = 0
    /\ convergence_count = 0
    /\ reference_page = UNBOUND
    /\ references_sum = 0
    /\ trail = << >>

InitTransition ==
    /\ op = "transition_model"
    /\ corpus \in Corpora
    /\ damping_factor \in Dampings
    /\ page \in IF corpus = Empty THEN {1} ELSE Pages(corpus)
    /\ n = 0
    /\ set_order = Empty
    /\ Idle

InitSample ==
    /\ op = "sample_pagerank"
    /\ corpus \in Corpora
    /\ damping_factor \in SampleDampings
    /\ page = UNBOUND
    /\ n \in -1..MaxSamples
    /\ set_order = Empty
    /\ Idle

InitIterate ==
    /\ op = "iterate_pagerank"
    /\ corpus \in Corpora
    /\ damping_factor \in Dampings
    /\ page = UNBOUND
    /\ n = 0
    /\ set_order \in SetOrders(corpus)
    /\ Idle

NextTransition == TransitionCall
NextSample == SampleStart \/ SampleStep \/ SampleReturn
NextIterate == IterateSetup \/ IterateUpdate \/ IterateReturn

SpecTransition == InitTransition /\ [][NextTransition]_vars
SpecSample == InitSample /\ [][NextSample]_vars
SpecIterate == InitIterate /\ [][NextIterate]_vars

Init == InitTransition \/ InitSample \/ InitIterate
Next == NextTransition \/ NextSample \/ NextIterate
Spec == Init /\ [][Next]_vars

-----------------------------------------------------------------------------
(* Properties of transition_model, under SpecTransition *)

TransitionReturned == op = "transition_model" /\ outcome = "returned"

\* The distribution of the PageRank model, entry q, in closed form.
ReferenceEntry(c, p, d, q) ==
    LET N == Len(c)
        k == Cardinality(c[p])
    IN  IF k = 0 THEN Rat(1, N)
        ELSE Rat((d.den - d.num) * k + (IF q \in c[p] THEN d.num * N ELSE 0),
                 d.den * N * k)

ExampleCorpus == << {2, 3}, {3}, {2} >>

\* C1: transition_model returns one entry per page of the graph, equal to the
\* reference distribution: (1-d)/N for every page plus d/k for the k > 0
\* pages the current page links to, and 1/N for every page when it links to
\* none, whatever d is; on {A:{B,C}, B:{C}, C:{B}} with d = 0.85 and page A it
\* returns {A: 0.05, B: 0.475, C: 0.475}.
C1_TransitionIsReference ==
    TransitionReturned =>
        /\ DOMAIN result = Pages(corpus)
        /\ \A q \in Pages(corpus) :
             result[q] = ReferenceEntry(corpus, page, damping_factor, q)
        /\ corpus[page] = {} =>
             \A q \in Pages(corpus) : result[q] = Rat(1, Len(corpus))
        /\ (corpus = ExampleCorpus /\ page = 1 /\ damping_factor = DAMPING) =>
             result = << Rat(5, 100), Rat(475, 1000), Rat(475, 1000) >>

C1_Witness_Example ==
    /\ TransitionReturned
    /\ corpus = ExampleCorpus
    /\ page = 1
    /\ damping_factor = DAMPING
    /\ result[2] = Rat(475, 1000)

\* C2, as claimed: every entry of every returned distribution is strictly
\* positive, for every damping factor in [0,1].
C2_EveryEntryPositive ==
    TransitionReturned => \A q \in DOMAIN result : RLess(RZero, result[q])

\* C2, amended: no entry is negative, and the entries that are zero are
\* exactly those of the pages the current page does not link to when d = 1
\* and the current page has outgoing links.
C2_ZeroOnlyAtFullDamping ==
    TransitionReturned =>
        \A q \in DOMAIN result :
            /\ ~RLess(result[q], RZero)
            /\ result[q] = RZero <=>
                 /\ damping_factor = ROne
                 /\ corpus[page] # {}
                 /\ q \notin corpus[page]

C2_Witness_ZeroEntry ==
    /\ TransitionReturned
    /\ damping_factor = ROne
    /\ corpus[page] # {}
    /\ \E q \in DOMAIN result : q \notin corpus[page] /\ result[q] = RZero

-----------------------------------------------------------------------------
(* Properties of sample_pagerank, under SpecSample *)

SampleReturned == op = "sample_pagerank" /\ outcome = "returned"

\* How often page p was the current page of a step.
Visits(p) == Cardinality({j \in DOMAIN trail : trail[j] = p})

C6_SmallSampleCountRejected ==
    (op = "sample_pagerank" /\ n < 1 /\ pc = "done") => outcome # "returned"

-----------------------------------------------------------------------------
(* Properties of all three functions, under Spec *)

\* C5, as claimed: on a graph of zero pages each of transition_model,
\* sample_pagerank and iterate_pagerank ends in an error that is not a
\* division by zero, and none returns a result.
C5_EmptyGraphFailsExplicitly ==
    (Len(corpus) = 0 /\ pc = "done") =>
        outcome \notin {"returned", "ZeroDivisionError"}

-----------------------------------------------------------------------------
(* Properties of iterate_pagerank, under SpecIterate *)

IterateReturned == op = "iterate_pagerank" /\ outcome = "returned"

RECURSIVE Total(_, _)
Total(f, S) ==
    IF S = {} THEN 0
    ELSE LET x == CHOOSE y \in S : TRUE IN f[x] + Total(f, S \ {x})

\* C4, as claimed: whenever iterate_pagerank returns, the rank map has one
\* entry per page and its values sum to 1 within 1e-3.
C4_RanksSumToOne ==
    IterateReturned =>
        /\ DOMAIN result = Pages(corpus)
        /\ Abs(Total(result, DOMAIN result) - Unit) <= Unit \div 1000

\* C7, as claimed: the rank map iterate_pagerank returns is the one every
\* other run on the same graph and damping factor returns, whatever order
\* the inbound sets are enumerated in.
C7_IterateDeterministic ==
    IterateReturned =>
        \A order \in SetOrders(corpus) :
            LET other == Run(corpus, damping_factor, ReverseIndex(corpus),
                             order, SetupState(corpus))
            IN  other.outcome = "returned" => other.page_ranks = result

\* C8, as claimed: the update of a page that no page links to is defined
\* (also when it is the first page processed), uses an inbound sum of
\* exactly zero and leaves the page at rank (1-d)/N.
C8_NoInboundIsTeleportOnly ==
    ( /\ op = "iterate_pagerank"
      /\ current_page # UNBOUND
      /\ \A p \in Pages(corpus) : current_page \notin corpus[p] ) =>
        /\ outcome # "UnboundLocalError"
        /\ references_sum = 0
        /\ page_ranks[current_page] = Teleport(damping_factor, Len(corpus))

Dangling(c) == {p \in Pages(c) : c[p] = {}}

\* C9, as claimed: at every update of a page q that some page links to, the
\* inbound sum is made of rank(p)/L(p) for the pages p that link to q and of
\* rank(D)/N for every dangling page D other than q.
C9_DanglingPagesContribute ==
    [][ ( /\ op = "iterate_pagerank"
          /\ current_count' = current_count + 1
          /\ \E p \in Pages(corpus) : current_page' \in corpus[p] ) =>
            references_sum' =
                MentionSum(corpus, damping_factor, page_ranks,
                           {p \in Pages(corpus) : current_page' \in corpus[p]}
                               \cup (Dangling(corpus) \ {current_page'}))
      ]_vars

\* C10: updates go round robin and in place (update number t changes page
\* t mod N only); the counter goes up by one on an update with
\* |old - new| <= 0.001 and back to zero on any other; it stays in 0..N; the
\* solver returns exactly when it is N, without a further update, and then
\* the last N updates were one of each page, each within the threshold.
C10_RoundRobinWindow ==
    [][ op = "iterate_pagerank" =>
          LET N == Len(corpus)
              q == (current_count % N) + 1
          IN  /\ convergence_count' \in 0..N
              /\ current_count' # current_count =>
                   /\ current_count' = current_count + 1
                   /\ convergence_count < N
                   /\ current_page' = q
                   /\ \A p \in Pages(corpus) \ {q} : page_ranks'[p] = page_ranks[p]
                   /\ convergence_count' =
                        IF Abs(page_ranks'[q] - page_ranks[q]) <= Unit \div 1000
                        THEN convergence_count + 1
                        ELSE 0
              /\ (pc = "loop" /\ convergence_count = N) =>
                   /\ outcome' = "returned"
                   /\ result' = page_ranks
                   /\ current_count' = current_count
              /\ (outcome' = "returned" /\ outcome # "returned") =>
                   /\ convergence_count = N
                   /\ Len(trail) = N
                   /\ \A j \in 1..N :
                        /\ trail[j].page = ((current_count - N + j - 1) % N) + 1
                        /\ trail[j].converged
                   /\ {trail[j].page : j \in 1..N} = Pages(corpus)
      ]_vars

C10_Witness_ReturnAfterReset ==
    /\ IterateReturned
    /\ Len(corpus) = MaxPages
    /\ current_count > 2 * Len(corpus)
    /\ convergence_count = Len(corpus)

=============================================================================
